---- MODULE Spec2Model ----
(***************************************************************************)
(* Model of the LSM9DS1 Raspberry Pi driver: the register-protocol driver  *)
(* of LSM9DS1.cpp and its interrupt-driven acquisition loop.               *)
(*                                                                         *)
(* The sources hold two event front ends for the same driver core:         *)
(*   "gpiod"  - the worker() thread of the libgpiod header                 *)
(*              (unnamed/part_000:670-684), which blocks in                *)
(*              gpiod_line_event_wait with a 1 s timeout;                  *)
(*   "pigpio" - the pigpio ISR thread armed by begin()                     *)
(*              (LSM9DS1.cpp:96-97), which calls gpioISR                   *)
(*              (LSM9DS1.h:570-575) on every edge and on every             *)
(*              ISR_TIMEOUT watchdog expiry, and is cancelled by end()     *)
(*              (LSM9DS1.cpp:122-127).                                     *)
(* device.build selects the front end.  Both call the same dataReady().    *)
(* The part of begin() that starts the worker thread and the end() that    *)
(* stops and joins it belong to the libgpiod build and are not among the   *)
(* sources; they are modelled from the specification text.                 *)
(***************************************************************************)
EXTENDS Integers, Sequences, FiniteSets, TLC

VARIABLES
    device,           \* DeviceSettings: [build, initPIGPIO]
    settings,         \* mag.enabled, temp.enabled as stored by begin()
    lsm9ds1Callback,  \* registered consumer, NULL when none
    raw,              \* gx..gz, ax..az, mx..mz, temperature (int16_t)
    running,          \* bool running of the libgpiod header
    thr,              \* position of the acquisition thread
    gpio,             \* interrupt-side resources held
    caller,           \* position of the caller's thread
    crashed,          \* the process ended through std::terminate
    cyc,              \* history of the acquisition cycle in progress
    lastWait,         \* how the last interrupt wait returned
    lastRead,         \* history of the last no-argument burst read
    lastBegin,        \* history of the last begin() call
    lastEnd,          \* history of the last end() call
    chip,             \* content of the chip's scale control registers
    scales,           \* gyro.scale, accel.scale, mag.scale
    res,              \* gRes, aRes, mRes
    setter,           \* the scale setter in progress on the caller's thread
    lastSet,          \* history of the last scale setter call
    lastPoll,         \* history of the last polling call
    handles,          \* transport handles open and not closed
    lastCalc,         \* history of the last calcGyro/calcAccel/calcMag call
    lastOffset        \* history of the last magOffset() call

vars == << device, settings, lsm9ds1Callback, raw, running, thr, gpio,
           caller, crashed, cyc, lastWait, lastRead, lastBegin, lastEnd,
           chip, scales, res, setter, lastSet, lastPoll, handles, lastCalc,
           lastOffset >>

\* what the scale setters and the polling calls add to the state
cfgVars == << chip, scales, res, setter, lastSet, lastPoll, handles,
             lastCalc, lastOffset >>

(***************************************************************************)
(* Program constants.                                                      *)
(***************************************************************************)
NULL == "nullptr"
Consumers == {"cb1"}

\* identity responses of the two sub-devices (register map of the chip)
WHO_AM_I_AG_RSP == 104
WHO_AM_I_M_RSP == 61

\* addresses of the magnetometer's X offset registers (register map of the
\* chip); those of Y and Z follow in steps of two
OFFSET_X_REG_L_M == 5
OFFSET_X_REG_H_M == 6

\* values the two catch blocks assign (LSM9DS1.cpp:377, 427)
AccelSentinel == 999
GyroSentinel == 9999

\* level pigpio passes to the ISR callback when the watchdog expires
PI_TIMEOUT == 2

\* types of thrown objects and of catch clauses
CharPtr == "const char*"
IntType == "int"
NoThrow == "none"

(***************************************************************************)
(* Byte arithmetic.                                                        *)
(***************************************************************************)
RECURSIVE BitXor(_, _)
BitXor(a, b) ==
    IF a = 0 /\ b = 0 THEN 0
    ELSE (((a % 2) + (b % 2)) % 2) + 2 * BitXor(a \div 2, b \div 2)

RECURSIVE BitOr(_, _)
BitOr(a, b) ==
    IF a = 0 /\ b = 0 THEN 0
    ELSE (IF (a % 2) = 1 \/ (b % 2) = 1 THEN 1 ELSE 0)
         + 2 * BitOr(a \div 2, b \div 2)

Shl8(b) == b * 256

RECURSIVE BitAnd(_, _)
BitAnd(a, b) ==
    IF a = 0 \/ b = 0 THEN 0
    ELSE (IF (a % 2) = 1 /\ (b % 2) = 1 THEN 1 ELSE 0)
         + 2 * BitAnd(a \div 2, b \div 2)

\* v << k
Shl(v, k) == v * (2 ^ k)

\* conversion of an int to uint8_t
ToUint8(v) == v % 256

\* conversion of an int to int16_t (two's complement wrap)
ToInt16(v) ==
    LET w == v % 65536 IN IF w >= 32768 THEN w - 65536 ELSE w

\* the unit in the last place of a float (24-bit significand) that holds
\* the magnitude a
RECURSIVE FloatUlp(_)
FloatUlp(a) == IF a < 2 ^ 24 THEN 1 ELSE 2 * FloatUlp(a \div 2)

\* conversion of a value to float, round to nearest, ties to even; values
\* are counted in a unit that is a power of two
ToFloat(n) ==
    LET a == IF n < 0 THEN 0 - n ELSE n
        u == FloatUlp(a)
        q == a \div u
        r == a % u
        m == IF 2 * r > u \/ (2 * r = u /\ q % 2 = 1) THEN (q + 1) * u
             ELSE q * u
    IN IF n < 0 THEN 0 - m ELSE m

\* the byte pair stored without the conversion to int16_t
Word_NoWrap(bytes, lo, hi) == BitOr(Shl8(bytes[hi]), bytes[lo])

\* (temp[hi] << 8) | temp[lo] stored into an int16_t field
Word(bytes, lo, hi) == ToInt16(BitOr(Shl8(bytes[hi]), bytes[lo]))

(***************************************************************************)
(* What the chip returns for a burst read, and how a transaction can end.  *)
(***************************************************************************)
Bursts == { <<16, 0, 32, 0, 48, 0>>, <<255, 255, 0, 128, 1, 0>> }

IdBytes == { WHO_AM_I_AG_RSP, WHO_AM_I_M_RSP, 0, 85 }

\* "ok": the transaction works; "openfail": i2cOpen returns < 0;
\* "iofail": the handle opens but the read/write call itself fails
\* (block read returns fewer bytes than asked, byte read returns < 0).
TxOutcomes == {"ok", "openfail", "iofail"}

\* a block read can also come back with fewer bytes than asked for
BurstOutcomes == TxOutcomes \cup {"short"}

(***************************************************************************)
(* Transport adapter (LSM9DS1.cpp:841-890).  Each operator returns what    *)
(* was thrown (NoThrow when nothing), the data read, and in `left` the     *)
(* number of handles the call opened and did not close.                    *)
(***************************************************************************)
I2CwriteByte(out) ==
    IF out = "openfail" THEN [thrown |-> CharPtr, left |-> 0]
    \* result of i2cWriteByteData is ignored; i2cClose(fd)
    ELSE [thrown |-> NoThrow, left |-> 0]

I2CreadByte(out, byte) ==
    IF out = "openfail" THEN [thrown |-> CharPtr, data |-> 0, left |-> 0]
    \* lines 864-869: data < 0, the throw comes before i2cClose(fd)
    ELSE IF out = "iofail" THEN [thrown |-> CharPtr, data |-> 0, left |-> 1]
    ELSE [thrown |-> NoThrow, data |-> byte, left |-> 0]

\* a block read that takes whatever arrived
I2CreadBytes_AcceptsShort(out, bytes, count) ==
    IF out = "openfail" THEN [thrown |-> CharPtr, dest |-> <<>>, left |-> 0]
    ELSE IF out = "iofail"
    THEN [thrown |-> CharPtr, dest |-> <<>>, left |-> 0]
    ELSE IF out = "short"
    THEN [thrown |-> NoThrow, dest |-> SubSeq(bytes, 1, count - 1) \o <<0>>,
          left |-> 0]
    ELSE [thrown |-> NoThrow, dest |-> SubSeq(bytes, 1, count), left |-> 0]

\* line 884: i2cClose(fd) comes before the test of the result
I2CreadBytes(out, bytes, count) ==
    IF out = "openfail" THEN [thrown |-> CharPtr, dest |-> <<>>, left |-> 0]
    ELSE IF out = "iofail"
    THEN [thrown |-> CharPtr, dest |-> <<>>, left |-> 0]
    \* lines 885-888: ret != count, fewer bytes than asked for arrived
    ELSE IF out = "short"
    THEN [thrown |-> CharPtr, dest |-> SubSeq(bytes, 1, count - 1),
          left |-> 0]
    ELSE [thrown |-> NoThrow, dest |-> SubSeq(bytes, 1, count), left |-> 0]

\* a handler catch(T) takes a thrown object of type T only
Catches(handler, thrown) == handler = thrown

(***************************************************************************)
(* No-argument burst reads (LSM9DS1.cpp:368-380, 392-400, 410-416,         *)
(* 418-430).  Each returns the new raw state, the exception that leaves    *)
(* the function, and the number of transport calls made.                   *)
(***************************************************************************)
readGyro(r, out, bytes) ==
    LET rd == I2CreadBytes(out, bytes, 6) IN
    IF rd.thrown = NoThrow
    THEN [raw |-> [r EXCEPT !.gx = Word(rd.dest, 1, 2),
                            !.gy = Word(rd.dest, 3, 4),
                            !.gz = Word(rd.dest, 5, 6)],
          thrown |-> NoThrow, tx |-> 1]
    ELSE IF Catches(IntType, rd.thrown)
    THEN [raw |-> [r EXCEPT !.gx = GyroSentinel, !.gy = GyroSentinel,
                            !.gz = GyroSentinel],
          thrown |-> NoThrow, tx |-> 1]
    ELSE [raw |-> r, thrown |-> rd.thrown, tx |-> 1]

readAccel(r, out, bytes) ==
    LET rd == I2CreadBytes(out, bytes, 6) IN
    IF rd.thrown = NoThrow
    THEN [raw |-> [r EXCEPT !.ax = Word(rd.dest, 1, 2),
                            !.ay = Word(rd.dest, 3, 4),
                            !.az = Word(rd.dest, 5, 6)],
          thrown |-> NoThrow, tx |-> 1]
    ELSE IF Catches(IntType, rd.thrown)
    THEN [raw |-> [r EXCEPT !.ax = AccelSentinel, !.ay = AccelSentinel,
                            !.az = AccelSentinel],
          thrown |-> NoThrow, tx |-> 1]
    ELSE [raw |-> r, thrown |-> rd.thrown, tx |-> 1]

\* readMag() without the test of mag.enabled
readMag_NoEnableTest(r, enabled, out, bytes) ==
    LET rd == I2CreadBytes(out, bytes, 6) IN
    IF rd.thrown = NoThrow
    THEN [raw |-> [r EXCEPT !.mx = Word(rd.dest, 1, 2),
                            !.my = Word(rd.dest, 3, 4),
                            !.mz = Word(rd.dest, 5, 6)],
          thrown |-> NoThrow, tx |-> 1]
    ELSE [raw |-> r, thrown |-> rd.thrown, tx |-> 1]

readMag(r, enabled, out, bytes) ==
    IF ~enabled THEN [raw |-> r, thrown |-> NoThrow, tx |-> 0]
    ELSE LET rd == I2CreadBytes(out, bytes, 6) IN
         IF rd.thrown = NoThrow
         THEN [raw |-> [r EXCEPT !.mx = Word(rd.dest, 1, 2),
                                 !.my = Word(rd.dest, 3, 4),
                                 !.mz = Word(rd.dest, 5, 6)],
               thrown |-> NoThrow, tx |-> 1]
         ELSE [raw |-> r, thrown |-> rd.thrown, tx |-> 1]

readTemp(r, enabled, out, bytes) ==
    IF ~enabled THEN [raw |-> r, thrown |-> NoThrow, tx |-> 0]
    ELSE LET rd == I2CreadBytes(out, bytes, 2) IN
         IF rd.thrown = NoThrow
         THEN [raw |-> [r EXCEPT !.temperature = Word(rd.dest, 1, 2)],
               thrown |-> NoThrow, tx |-> 1]
         ELSE [raw |-> r, thrown |-> rd.thrown, tx |-> 1]

Sensors == {"gyro", "accel", "mag", "temp"}

\* the no-argument read of one sensor
readSensor(s, r, st, out, bytes) ==
    CASE s = "gyro"  -> readGyro(r, out, bytes)
      [] s = "accel" -> readAccel(r, out, bytes)
      [] s = "mag"   -> readMag(r, st.magEnabled, out, bytes)
      [] s = "temp"  -> readTemp(r, st.tempEnabled, out, bytes)

(***************************************************************************)
(* Initial state: the object after construction (LSM9DS1.cpp:39-45 and     *)
(* the member initialisers of the headers).                                *)
(***************************************************************************)
Builds == {"gpiod", "pigpio"}

\* NDEBUG: the library was compiled with NDEBUG defined, as the build
\* type RelWithDebInfo that CMakeLists.txt selects by default does
DeviceSettings ==
    { d \in [build : Builds, initPIGPIO : BOOLEAN, NDEBUG : BOOLEAN] :
        d.build = "gpiod" => ~d.initPIGPIO }

\* the control registers that hold a full-scale selection
ScaleRegs == {"CTRL_REG1_G", "CTRL_REG6_XL", "CTRL_REG2_M"}

\* enumerators of GyroSettings::Scale, AccelSettings::Scale,
\* MagSettings::Scale
GyroScales == {245, 500, 2000}
AccelScales == {2, 4, 8, 16}
MagScales == {4, 8, 12, 16}

\* member initialisers of the three settings structures
DefaultScales == [g |-> 245, a |-> 16, m |-> 16]

\* LSM9DS1.cpp:33, in units of 0.00001 gauss per count
magSensitivity == << 14, 29, 43, 58 >>

\* what the chip holds when the driver is constructed: its reset value, or
\* what an earlier user of the chip has left in it
PriorContents == {0, 255}

\* gRes, aRes, mRes have no initialiser: the value of a member that was
\* never assigned, equal to no resolution of the tables
Indeterminate == -1

NoSetter == [x |-> "none", byte |-> 0, arg |-> 0]

\* x: the sensor of the last setter called; arg: its argument, 0 when no
\* setter has been called since the last begin()
NoSet == [x |-> "none", arg |-> 0, done |-> FALSE, threw |-> FALSE,
          writeOut |-> "none", before |-> 0]

NoPoll == [op |-> "none", cb |-> NULL, tx |-> 0, aborted |-> FALSE,
           threw |-> FALSE]

NoCalc == [x |-> "none", raw |-> 0, value |-> 0]

NoOffset == [called |-> FALSE, axis |-> 0, offset |-> 0, writes |-> <<>>,
             threw |-> FALSE]

EmptyCyc ==
    [chk |-> "none", log |-> <<>>, tx |-> 0, wrote |-> FALSE,
     fault |-> FALSE]

\* got: the bytes a read that worked has received
NoRead == [by |-> "none", sensor |-> "none", failed |-> FALSE,
           thrown |-> FALSE, out |-> "none", got |-> <<>>]

\* gRate, gBw: gyro.sampleRate and gyro.bandwidth the call has stored
NoBegin == [result |-> "none", log |-> <<>>, started |-> FALSE,
            idXG |-> 0, idM |-> 0, gRate |-> 0, gBw |-> 0]

NoEnd == [n |-> 0, tx |-> 0, released |-> {}, threw |-> FALSE,
          returned |-> FALSE, calledAt |-> "none"]

\* the object after construction, on a chip holding one of `contents` and
\* in a library built with one of `ndebug`
InitWith(contents, ndebug) ==
    /\ device \in {d \in DeviceSettings : d.NDEBUG \in ndebug}
    /\ settings = [magEnabled |-> TRUE, tempEnabled |-> TRUE]
    /\ lsm9ds1Callback = NULL
    /\ raw = [gx |-> 0, gy |-> 0, gz |-> 0, ax |-> 0, ay |-> 0, az |-> 0,
              mx |-> 0, my |-> 0, mz |-> 0, temperature |-> 0]
    /\ running = FALSE
    /\ thr = "none"
    \* with initPIGPIO false the application has initialised pigpio itself
    /\ gpio = [pigpioInit |-> (device.build = "pigpio" /\ ~device.initPIGPIO),
               isr |-> FALSE, line |-> FALSE]
    /\ caller = "idle"
    /\ crashed = FALSE
    /\ cyc = EmptyCyc
    /\ lastWait = "none"
    /\ lastRead = NoRead
    /\ lastBegin = NoBegin
    /\ lastEnd = NoEnd
    /\ \E v \in contents : chip = [r \in ScaleRegs |-> v]
    /\ scales = DefaultScales
    /\ res = [g |-> Indeterminate, a |-> Indeterminate, m |-> Indeterminate]
    /\ setter = NoSetter
    /\ lastSet = NoSet
    /\ lastPoll = NoPoll
    /\ handles = 0
    /\ lastCalc = NoCalc
    /\ lastOffset = NoOffset

\* a chip in its reset state (every scale register 0x00), the default
\* build type of CMakeLists.txt
Init == InitWith({0}, {TRUE})

(***************************************************************************)
(* setCallback (LSM9DS1.h:289-291, unnamed/part_000:359-361).              *)
(***************************************************************************)
setCallback(cb) ==
    /\ ~crashed
    /\ caller = "idle"
    /\ lsm9ds1Callback' = cb
    /\ lastEnd' = [lastEnd EXCEPT !.n = 0]
    /\ UNCHANGED << device, settings, raw, running, thr, gpio, caller,
                    crashed, cyc, lastWait, lastRead, lastBegin >>
    /\ UNCHANGED cfgVars

(***************************************************************************)
(* A no-argument burst read called from the caller's thread.  An exception *)
(* that leaves the read reaches the caller.                                *)
(***************************************************************************)
callerRead(s, out, bytes) ==
    /\ ~crashed
    /\ caller = "idle"
    /\ LET rd == readSensor(s, raw, settings, out, bytes) IN
       /\ raw' = rd.raw
       /\ lastRead' = [by |-> "caller", sensor |-> s,
                       failed |-> (rd.tx > 0 /\ out # "ok"),
                       thrown |-> (rd.thrown # NoThrow), out |-> out,
                       got |-> IF rd.tx > 0 /\ out = "ok" THEN bytes
                               ELSE <<>>]
    /\ lastEnd' = [lastEnd EXCEPT !.n = 0]
    /\ UNCHANGED << device, settings, lsm9ds1Callback, running, thr, gpio,
                    caller, crashed, cyc, lastWait, lastBegin >>
    /\ UNCHANGED cfgVars

(***************************************************************************)
(* dataReady (LSM9DS1.cpp:100-120), one step per shared access or          *)
(* transport call, run on the acquisition thread.                          *)
(***************************************************************************)
\* where the thread continues when dataReady() returns
ReturnPc == IF device.build = "gpiod" THEN "w_test" ELSE "p_wait"

\* dataReady() without the test of line 101
dataReadyCheck_NoReturn ==
    /\ ~crashed
    /\ thr = "dr_check"
    /\ cyc' = [cyc EXCEPT !.chk = lsm9ds1Callback]
    /\ thr' = "dr_gyro"
    /\ UNCHANGED << device, settings, lsm9ds1Callback, raw, running, gpio,
                    caller, crashed, lastWait, lastRead, lastBegin, lastEnd >>
    /\ UNCHANGED cfgVars

\* line 101: if (!lsm9ds1Callback) return;
dataReadyCheck ==
    /\ ~crashed
    /\ thr = "dr_check"
    /\ cyc' = [cyc EXCEPT !.chk = lsm9ds1Callback]
    /\ thr' = IF lsm9ds1Callback = NULL THEN ReturnPc ELSE "dr_gyro"
    /\ UNCHANGED << device, settings, lsm9ds1Callback, raw, running, gpio,
                    caller, crashed, lastWait, lastRead, lastBegin, lastEnd >>
    /\ UNCHANGED cfgVars

AfterRead(s) ==
    CASE s = "gyro"  -> "dr_accel"
      [] s = "accel" -> "dr_mag"
      [] s = "mag"   -> "dr_temp"
      [] s = "temp"  -> "dr_call"

\* lines 103-106: readGyro(); readAccel(); readMag(); readTemp();
\* an exception that leaves the read leaves dataReady() and the thread
\* function: no handler exists, the process terminates.
dataReadyRead(s, out, bytes) ==
    /\ ~crashed
    /\ thr = "dr_" \o s
    /\ LET rd == readSensor(s, raw, settings, out, bytes)
           failed == rd.tx > 0 /\ out # "ok"
       IN
       /\ raw' = rd.raw
       /\ cyc' = [cyc EXCEPT !.log = Append(@, s),
                             !.tx = @ + rd.tx,
                             !.wrote = @ \/ (rd.tx > 0 /\ rd.thrown = NoThrow),
                             !.fault = @ \/ failed]
       /\ lastRead' = [by |-> "loop", sensor |-> s, failed |-> failed,
                       thrown |-> (rd.thrown # NoThrow), out |-> out,
                       got |-> IF rd.tx > 0 /\ out = "ok" THEN bytes
                               ELSE <<>>]
       /\ IF rd.thrown # NoThrow
          THEN crashed' = TRUE /\ thr' = "dead"
          ELSE crashed' = FALSE /\ thr' = AfterRead(s)
    /\ UNCHANGED << device, settings, lsm9ds1Callback, running, gpio,
                    caller, lastWait, lastBegin, lastEnd >>
    /\ UNCHANGED cfgVars

\* lines 108-119: build the sample, lsm9ds1Callback->hasSample(sample).
\* The member is read again here; when it is null by now the call is
\* undefined: the process dies, or the consumer seen at line 101 is called.
dataReadyCall(stale) ==
    /\ ~crashed
    /\ thr = "dr_call"
    /\ IF lsm9ds1Callback # NULL
       THEN /\ cyc' = [cyc EXCEPT !.log = Append(@, "cb")]
            /\ thr' = ReturnPc
            /\ crashed' = FALSE
       ELSE IF stale
       THEN /\ cyc' = [cyc EXCEPT !.log = Append(@, "cb")]
            /\ thr' = ReturnPc
            /\ crashed' = FALSE
       ELSE /\ cyc' = cyc
            /\ thr' = "dead"
            /\ crashed' = TRUE
    /\ UNCHANGED << device, settings, lsm9ds1Callback, raw, running, gpio,
                    caller, lastWait, lastRead, lastBegin, lastEnd >>
    /\ UNCHANGED cfgVars

(***************************************************************************)
(* worker (unnamed/part_000:670-684).                                      *)
(***************************************************************************)
\* line 672: running = true;
workerStart ==
    /\ ~crashed
    /\ thr = "w_start"
    /\ running' = TRUE
    /\ thr' = "w_test"
    /\ UNCHANGED << device, settings, lsm9ds1Callback, raw, gpio, caller,
                    crashed, cyc, lastWait, lastRead, lastBegin, lastEnd >>
    /\ UNCHANGED cfgVars

\* line 673: while (running)
workerTest ==
    /\ ~crashed
    /\ thr = "w_test"
    /\ thr' = IF running THEN "w_wait" ELSE "exited"
    /\ UNCHANGED << device, settings, lsm9ds1Callback, raw, running, gpio,
                    caller, crashed, cyc, lastWait, lastRead, lastBegin,
                    lastEnd >>
    /\ UNCHANGED cfgVars

WaitKind(r) == IF r = 1 THEN "event" ELSE IF r = 0 THEN "timeout" ELSE "error"

\* worker() that stops on a timeout only and waits again after an error
workerWait_ErrorContinues(r) ==
    /\ ~crashed
    /\ thr = "w_wait"
    /\ lastWait' = WaitKind(r)
    /\ cyc' = EmptyCyc
    /\ IF 1 = r
       THEN /\ thr' = "dr_check"
            /\ running' = running
       ELSE /\ running' = (running /\ r # 0)
            /\ thr' = "w_test"
    /\ UNCHANGED << device, settings, lsm9ds1Callback, raw, gpio, caller,
                    crashed, lastRead, lastBegin, lastEnd >>
    /\ UNCHANGED cfgVars

\* lines 674-682: r = gpiod_line_event_wait(pinDRDY, &ts): 1 on an event,
\* 0 on a timeout, -1 on an error.
workerWait(r) ==
    /\ ~crashed
    /\ thr = "w_wait"
    /\ lastWait' = WaitKind(r)
    /\ cyc' = EmptyCyc
    /\ IF 1 = r
       THEN /\ thr' = "dr_check"     \* gpiod_line_event_read; dataReady()
            /\ running' = running
       ELSE /\ running' = FALSE
            /\ thr' = "w_test"
    /\ UNCHANGED << device, settings, lsm9ds1Callback, raw, gpio, caller,
                    crashed, lastRead, lastBegin, lastEnd >>
    /\ UNCHANGED cfgVars

(***************************************************************************)
(* The pigpio ISR thread armed at LSM9DS1.cpp:97 and gpioISR               *)
(* (LSM9DS1.h:570-575).  pigpio calls the callback with the line level on  *)
(* an edge and with PI_TIMEOUT when ISR_TIMEOUT ms pass without one.       *)
(***************************************************************************)
gpioISR(level) ==
    /\ ~crashed
    /\ thr = "p_wait"
    /\ lastWait' = IF level = PI_TIMEOUT THEN "timeout" ELSE "event"
    /\ cyc' = EmptyCyc
    /\ thr' = IF level # 0 THEN "dr_check" ELSE "p_wait"
    /\ UNCHANGED << device, settings, lsm9ds1Callback, raw, running, gpio,
                    caller, crashed, lastRead, lastBegin, lastEnd >>
    /\ UNCHANGED cfgVars

(***************************************************************************)
(* begin (LSM9DS1.cpp:47-98).                                              *)
(***************************************************************************)
\* the register transactions of begin() in program order: the two identity
\* reads (lines 79-80), initGyro (150-195), initAccel (213-256),
\* initMag (285-337)
BeginTx ==
    << [op |-> "read",  dev |-> "m",  reg |-> "WHO_AM_I_M"],
       [op |-> "read",  dev |-> "xg", reg |-> "WHO_AM_I_XG"],
       [op |-> "write", dev |-> "xg", reg |-> "CTRL_REG1_G"],
       [op |-> "write", dev |-> "xg", reg |-> "CTRL_REG2_G"],
       [op |-> "write", dev |-> "xg", reg |-> "CTRL_REG3_G"],
       [op |-> "write", dev |-> "xg", reg |-> "CTRL_REG4"],
       [op |-> "write", dev |-> "xg", reg |-> "ORIENT_CFG_G"],
       [op |-> "write", dev |-> "xg", reg |-> "INT2_CTRL"],
       [op |-> "write", dev |-> "xg", reg |-> "CTRL_REG5_XL"],
       [op |-> "write", dev |-> "xg", reg |-> "CTRL_REG6_XL"],
       [op |-> "write", dev |-> "xg", reg |-> "CTRL_REG7_XL"],
       [op |-> "write", dev |-> "m",  reg |-> "CTRL_REG1_M"],
       [op |-> "write", dev |-> "m",  reg |-> "CTRL_REG2_M"],
       [op |-> "write", dev |-> "m",  reg |-> "CTRL_REG3_M"],
       [op |-> "write", dev |-> "m",  reg |-> "CTRL_REG4_M"],
       [op |-> "write", dev |-> "m",  reg |-> "CTRL_REG5_M"] >>

NumIdentityReads == 2

\* what the environment does to one begin() call
BeginInputs ==
    [ magEnabled : BOOLEAN, tempEnabled : BOOLEAN,
      gScale : GyroScales, aScale : AccelScales, mScale : MagScales,
      gRate : 1 .. 6, gBw : 0 .. 3, aBw : -1 .. 3,
      pigpioOK : BOOLEAN,                  \* gpioInitialise() >= 0
      idM : IdBytes, idXG : IdBytes,       \* bytes the identity reads return
      failAt : 0 .. Len(BeginTx),          \* transaction that fails, 0: none
      failKind : {"openfail", "iofail"} ]

TxOut(i, in) == IF i = in.failAt THEN in.failKind ELSE "ok"

TxThrows(t, out) ==
    IF t.op = "read" THEN I2CreadByte(out, 0).thrown # NoThrow
    ELSE I2CwriteByte(out).thrown # NoThrow

\* handles the transactions of a log have left open
RECURSIVE LeftOpen(_)
LeftOpen(log) ==
    IF log = <<>> THEN 0
    ELSE (IF Head(log).op = "read" THEN I2CreadByte(Head(log).out, 0).left
          ELSE I2CwriteByte(Head(log).out).left) + LeftOpen(Tail(log))

\* descriptors the process can hold open before open() fails for good
MaxHandles == 2

\* transactions from..to in order, up to and including the first that throws
RECURSIVE RunTx(_, _, _)
RunTx(from, to, in) ==
    IF from > to THEN [log |-> <<>>, thrown |-> FALSE]
    ELSE LET t == BeginTx[from]
             out == TxOut(from, in)
             e == [op |-> t.op, dev |-> t.dev, reg |-> t.reg, out |-> out]
         IN IF TxThrows(t, out)
            THEN [log |-> <<e>>, thrown |-> TRUE]
            ELSE LET rest == RunTx(from + 1, to, in)
                 IN [log |-> <<e>> \o rest.log, thrown |-> rest.thrown]

\* line 81: uint16_t whoAmICombined = (xgTest << 8) | mTest;
WhoAmICombined(xgTest, mTest) == BitOr(Shl8(xgTest), mTest) % 65536

\* line 83: (WHO_AM_I_AG_RSP << 8) | WHO_AM_I_M_RSP
WhoAmIExpected == BitOr(Shl8(WHO_AM_I_AG_RSP), WHO_AM_I_M_RSP)

\* an identity test on the exclusive or of the two bytes
identityOK_Xor(xgTest, mTest) ==
    BitXor(xgTest, mTest) = BitXor(WHO_AM_I_AG_RSP, WHO_AM_I_M_RSP)

\* line 83: the identity test of begin()
identityOK(xgTest, mTest) == WhoAmICombined(xgTest, mTest) = WhoAmIExpected

\* begin() that initialises the sensors before it tests the identity
beginRun_CheckAfterInit(in) ==
    IF device.initPIGPIO /\ ~in.pigpioOK
    THEN [result |-> "pigpio", log |-> <<>>, idXG |-> 0, idM |-> 0]
    ELSE LET all == RunTx(1, Len(BeginTx), in) IN
         IF all.thrown
         THEN [result |-> "transport", log |-> all.log, idXG |-> 0, idM |-> 0]
         ELSE IF ~identityOK(in.idXG, in.idM)
         THEN [result |-> "whoami", log |-> all.log,
               idXG |-> in.idXG, idM |-> in.idM]
         ELSE [result |-> "ok", log |-> all.log,
               idXG |-> in.idXG, idM |-> in.idM]

\* lines 139-150, 224-236, 293-304: the scale bits the init functions put
\* into CTRL_REG1_G, CTRL_REG6_XL, CTRL_REG2_M
GyroScaleBits(scale) ==
    CASE scale = 500  -> Shl(1, 3)
      [] scale = 2000 -> Shl(3, 3)
      [] OTHER        -> 0

AccelScaleBits(scale) ==
    CASE scale = 4  -> Shl(2, 3)
      [] scale = 8  -> Shl(3, 3)
      [] scale = 16 -> Shl(1, 3)
      [] OTHER      -> 0

MagScaleBits(scale) ==
    CASE scale = 8  -> Shl(1, 5)
      [] scale = 12 -> Shl(2, 5)
      [] scale = 16 -> Shl(3, 5)
      [] OTHER      -> 0

\* the bytes of begin() without the masks on sample rate and bandwidth
BeginRegValue_NoMask(r, in) ==
    CASE r = "CTRL_REG1_G" ->
           ToUint8(BitOr(BitOr(Shl(in.gRate, 5), GyroScaleBits(in.gScale)),
                         in.gBw))
      [] r = "CTRL_REG6_XL" ->
           ToUint8(BitOr(BitOr(Shl(BitAnd(1, 7), 5),
                               AccelScaleBits(in.aScale)),
                         IF in.aBw >= 0
                         THEN BitOr(Shl(1, 2), BitAnd(in.aBw, 3)) ELSE 0))
      [] r = "CTRL_REG2_M" -> MagScaleBits(in.mScale)

\* the byte begin() writes to a scale register
BeginRegValue(r, in) ==
    CASE r = "CTRL_REG1_G" ->
           ToUint8(BitOr(BitOr(Shl(BitAnd(in.gRate, 7), 5),
                               GyroScaleBits(in.gScale)),
                         BitAnd(in.gBw, 3)))
      [] r = "CTRL_REG6_XL" ->
           ToUint8(BitOr(BitOr(Shl(BitAnd(1, 7), 5),
                               AccelScaleBits(in.aScale)),
                         IF in.aBw >= 0
                         THEN BitOr(Shl(1, 2), BitAnd(in.aBw, 3)) ELSE 0))
      [] r = "CTRL_REG2_M" -> MagScaleBits(in.mScale)

\* the chip executes a write that the transport carried out
WrittenOK(log, r) ==
    \E i \in 1 .. Len(log) :
        log[i].op = "write" /\ log[i].reg = r /\ log[i].out = "ok"

chipAfterBegin(c, log, in) ==
    [r \in ScaleRegs |-> IF WrittenOK(log, r) THEN BeginRegValue(r, in)
                         ELSE c[r]]

\* lines 601-630: gRes and aRes in units of 1/32768, mRes from the table;
\* calcmRes assigns nothing for a scale that is no case of its switch
calcgRes(sc) == sc.g

calcaRes(sc) == sc.a

\* calcmRes() by the formula of the other two sensors (the line commented
\* out at 613), in the unit of the table
calcmRes_Linear(sc, old) == (sc.m * 100000) \div 32768

calcmRes(sc, old) ==
    CASE sc.m = 4  -> magSensitivity[1]
      [] sc.m = 8  -> magSensitivity[2]
      [] sc.m = 12 -> magSensitivity[3]
      [] sc.m = 16 -> magSensitivity[4]
      [] OTHER     -> old

\* begin() that arms the data-ready source before initMag()
beginRun_ArmBeforeMag(in) ==
    IF device.initPIGPIO /\ ~in.pigpioOK
    THEN [result |-> "pigpio", log |-> <<>>, idXG |-> 0, idM |-> 0]
    ELSE LET id == RunTx(1, NumIdentityReads, in) IN
         IF id.thrown
         THEN [result |-> "transport", log |-> id.log, idXG |-> 0, idM |-> 0]
         ELSE IF ~identityOK(in.idXG, in.idM)
         THEN [result |-> "whoami", log |-> id.log,
               idXG |-> in.idXG, idM |-> in.idM]
         ELSE LET ctl == RunTx(NumIdentityReads + 1, Len(BeginTx) - 5, in) IN
              IF ctl.thrown
              THEN [result |-> "transport", log |-> id.log \o ctl.log,
                    idXG |-> in.idXG, idM |-> in.idM]
              ELSE [result |-> "ok", log |-> id.log \o ctl.log,
                    idXG |-> in.idXG, idM |-> in.idM]

\* the outcome of begin(): how it ended and the transactions it issued
\* idXG, idM: the identity bytes read, 0 when the reads did not complete
beginRun(in) ==
    IF device.initPIGPIO /\ ~in.pigpioOK                   \* lines 57-68
    THEN [result |-> "pigpio", log |-> <<>>, idXG |-> 0, idM |-> 0]
    ELSE LET id == RunTx(1, NumIdentityReads, in) IN       \* lines 79-80
         IF id.thrown
         THEN [result |-> "transport", log |-> id.log, idXG |-> 0, idM |-> 0]
         ELSE IF ~identityOK(in.idXG, in.idM)              \* lines 83-85
         THEN [result |-> "whoami", log |-> id.log,
               idXG |-> in.idXG, idM |-> in.idM]
         ELSE LET ctl == RunTx(NumIdentityReads + 1, Len(BeginTx), in) IN
              IF ctl.thrown                                \* lines 88-94
              THEN [result |-> "transport", log |-> id.log \o ctl.log,
                    idXG |-> in.idXG, idM |-> in.idM]
              ELSE [result |-> "ok", log |-> id.log \o ctl.log,
                    idXG |-> in.idXG, idM |-> in.idM]

\* lines 96-97: gpioSetMode, gpioSetISRFuncEx(.., RISING_EDGE, ISR_TIMEOUT,
\* gpioISR, this): pigpio starts its ISR thread for the line
armISR(g) == [gpio |-> [g EXCEPT !.isr = TRUE], thr |-> "p_wait"]

\* libgpiod build: request rising-edge events on the line and start the
\* worker thread
startWorker(g) == [gpio |-> [g EXCEPT !.line = TRUE], thr |-> "w_start"]

LoopIdle == thr \in {"none", "exited"}

begin(in) ==
    /\ ~crashed
    /\ caller = "idle"
    /\ LoopIdle
    /\ LET br == beginRun(in)
           sc == [g |-> in.gScale, a |-> in.aScale, m |-> in.mScale]
           g1 == IF device.initPIGPIO /\ in.pigpioOK
                 THEN [gpio EXCEPT !.pigpioInit = TRUE] ELSE gpio
           go == IF device.build = "pigpio" THEN armISR(g1)
                 ELSE startWorker(g1)
       IN
       /\ settings' = [magEnabled |-> in.magEnabled,
                       tempEnabled |-> in.tempEnabled]      \* lines 52-55
       /\ scales' = sc                                      \* lines 52-55
       /\ res' = IF br.result = "pigpio" THEN res           \* lines 73-75
                 ELSE [g |-> calcgRes(sc), a |-> calcaRes(sc),
                       m |-> calcmRes(sc, res.m)]
       /\ chip' = chipAfterBegin(chip, br.log, in)
       /\ handles + LeftOpen(br.log) <= MaxHandles
       /\ handles' = handles + LeftOpen(br.log)
       /\ lastBegin' = [result |-> br.result, log |-> br.log,
                        started |-> (br.result = "ok"),
                        idXG |-> br.idXG, idM |-> br.idM,
                        gRate |-> in.gRate, gBw |-> in.gBw]
       /\ IF br.result = "ok"
          THEN /\ gpio' = go.gpio
               /\ thr' = go.thr
               /\ cyc' = EmptyCyc
               /\ lastWait' = "none"
          ELSE /\ gpio' = g1
               /\ UNCHANGED << thr, cyc, lastWait >>
    /\ lastEnd' = NoEnd
    /\ lastSet' = [NoSet EXCEPT !.x = lastSet.x]
    /\ lastCalc' = NoCalc
    /\ UNCHANGED << device, lsm9ds1Callback, raw, running, caller, crashed,
                    lastRead, setter, lastPoll, lastOffset >>

(***************************************************************************)
(* end (LSM9DS1.cpp:122-127), pigpio build.                                *)
(***************************************************************************)
\* line 123: gpioSetISRFuncEx(gpio, RISING_EDGE, -1, NULL, this).  pigpio
\* refuses the call when the library is not initialised; otherwise it
\* cancels the ISR thread of the line, if any, and joins it.
cancelISR(g, t) ==
    IF g.pigpioInit /\ g.isr
    THEN [gpio |-> [g EXCEPT !.isr = FALSE], thr |-> "none",
          released |-> {"isr"}]
    ELSE [gpio |-> g, thr |-> t, released |-> {}]

\* line 125: gpioTerminate() does nothing on a library that is not
\* initialised
gpioTerminate(g) ==
    IF g.pigpioInit
    THEN [gpio |-> [g EXCEPT !.pigpioInit = FALSE, !.isr = FALSE],
          released |-> {"pigpio"}]
    ELSE [gpio |-> g, released |-> {}]

\* end() without the cancellation of line 123
endRun_NoCancel(g, t) ==
    LET z == IF device.initPIGPIO THEN gpioTerminate(g)
             ELSE [gpio |-> g, released |-> {}]
    IN [gpio |-> z.gpio, thr |-> t, released |-> z.released, tx |-> 0]

\* end() that also writes a power-down value to a control register
endRun_WritesRegister(g, t) ==
    LET c == cancelISR(g, t)
        z == IF device.initPIGPIO THEN gpioTerminate(c.gpio)
             ELSE [gpio |-> c.gpio, released |-> {}]
    IN [gpio |-> z.gpio, thr |-> c.thr,
        released |-> c.released \cup z.released, tx |-> 1]

\* the effect of end(): resources, thread, register transactions issued
endRun(g, t) ==
    LET c == cancelISR(g, t)
        z == IF device.initPIGPIO THEN gpioTerminate(c.gpio)
             ELSE [gpio |-> c.gpio, released |-> {}]
    IN [gpio |-> z.gpio, thr |-> c.thr,
        released |-> c.released \cup z.released, tx |-> 0]

MaxEnds == 2

end ==
    /\ ~crashed
    /\ caller = "idle"
    /\ device.build = "pigpio"
    /\ lastEnd.n < MaxEnds
    /\ LET e == endRun(gpio, thr) IN
       /\ gpio' = e.gpio
       /\ thr' = e.thr
       /\ lastEnd' = [n |-> lastEnd.n + 1, tx |-> e.tx,
                      released |-> e.released, threw |-> FALSE,
                      returned |-> TRUE, calledAt |-> thr]
    /\ cyc' = EmptyCyc
    /\ lastWait' = "none"
    /\ lastRead' = NoRead
    /\ UNCHANGED << device, settings, lsm9ds1Callback, raw, running,
                    caller, crashed, lastBegin >>
    /\ UNCHANGED cfgVars

(***************************************************************************)
(* end(), libgpiod build: ask the loop to stop, wait until the worker has  *)
(* exited, release the line.  A call with no worker to stop returns at     *)
(* once.                                                                   *)
(***************************************************************************)
endRequest ==
    /\ ~crashed
    /\ caller = "idle"
    /\ device.build = "gpiod"
    /\ lastEnd.n < MaxEnds
    /\ IF thr = "none"
       THEN /\ lastEnd' = [n |-> lastEnd.n + 1, tx |-> 0, released |-> {},
                           threw |-> FALSE, returned |-> TRUE,
                           calledAt |-> thr]
            /\ UNCHANGED << running, caller >>
       ELSE /\ running' = FALSE
            /\ caller' = "end_join"
            /\ lastEnd' = [lastEnd EXCEPT !.calledAt = thr]
    /\ UNCHANGED << device, settings, lsm9ds1Callback, raw, thr, gpio,
                    crashed, cyc, lastWait, lastRead, lastBegin >>
    /\ UNCHANGED cfgVars

endJoin ==
    /\ ~crashed
    /\ caller = "end_join"
    /\ thr = "exited"
    /\ thr' = "none"
    /\ gpio' = [gpio EXCEPT !.line = FALSE]
    /\ caller' = "idle"
    /\ lastEnd' = [n |-> lastEnd.n + 1, tx |-> 0,
                   released |-> IF gpio.line THEN {"line"} ELSE {},
                   threw |-> FALSE, returned |-> TRUE,
                   calledAt |-> lastEnd.calledAt]
    /\ UNCHANGED << device, settings, lsm9ds1Callback, raw, running,
                    crashed, cyc, lastWait, lastRead, lastBegin >>
    /\ UNCHANGED cfgVars

(***************************************************************************)
(* Scale setters (LSM9DS1.cpp:462-552): read the control register, mask    *)
(* the scale bits, set them and the stored scale in the switch, write the  *)
(* register back, recompute the resolution.  One step per transport call   *)
(* and per write to a member the acquisition thread reads.                 *)
(***************************************************************************)
ScaleSensors == {"gyro", "accel", "mag"}

ScaleReg(x) ==
    CASE x = "gyro"  -> "CTRL_REG1_G"
      [] x = "accel" -> "CTRL_REG6_XL"
      [] x = "mag"   -> "CTRL_REG2_M"

ScaleField(x) ==
    CASE x = "gyro" -> "g" [] x = "accel" -> "a" [] x = "mag" -> "m"

\* the scale enumeration of a sensor
ScaleDomain(x) ==
    CASE x = "gyro"  -> GyroScales
      [] x = "accel" -> AccelScales
      [] x = "mag"   -> MagScales

\* setGyroScale with a mask that also clears the bandwidth bits
gyroScaleSwitch_WideMask(v, gScl) ==
    LET m == BitAnd(v, 224) IN
    CASE gScl = 500  -> [byte |-> BitOr(m, Shl(1, 3)), scale |-> gScl]
      [] gScl = 2000 -> [byte |-> BitOr(m, Shl(3, 3)), scale |-> gScl]
      [] OTHER       -> [byte |-> m, scale |-> 245]

\* lines 467-481: ctrl1RegValue &= 0xE7; switch (gScl)
gyroScaleSwitch(v, gScl) ==
    LET m == BitAnd(v, 231) IN
    CASE gScl = 500  -> [byte |-> BitOr(m, Shl(1, 3)), scale |-> gScl]
      [] gScl = 2000 -> [byte |-> BitOr(m, Shl(3, 3)), scale |-> gScl]
      [] OTHER       -> [byte |-> m, scale |-> 245]

\* lines 492-511: tempRegValue &= 0xE7; switch (aScl)
accelScaleSwitch(v, aScl) ==
    LET m == BitAnd(v, 231) IN
    CASE aScl = 4  -> [byte |-> BitOr(m, Shl(2, 3)), scale |-> aScl]
      [] aScl = 8  -> [byte |-> BitOr(m, Shl(3, 3)), scale |-> aScl]
      [] aScl = 16 -> [byte |-> BitOr(m, Shl(1, 3)), scale |-> aScl]
      [] OTHER     -> [byte |-> m, scale |-> 2]

\* lines 523-542: temp &= 0xFF^(0x3 << 5); switch (mScl)
magScaleSwitch(v, mScl) ==
    LET m == BitAnd(v, BitXor(255, Shl(3, 5))) IN
    CASE mScl = 8  -> [byte |-> BitOr(m, Shl(1, 5)), scale |-> mScl]
      [] mScl = 12 -> [byte |-> BitOr(m, Shl(2, 5)), scale |-> mScl]
      [] mScl = 16 -> [byte |-> BitOr(m, Shl(3, 5)), scale |-> mScl]
      [] OTHER     -> [byte |-> m, scale |-> 4]

scaleSwitch(x, v, arg) ==
    CASE x = "gyro"  -> gyroScaleSwitch(v, arg)
      [] x = "accel" -> accelScaleSwitch(v, arg)
      [] x = "mag"   -> magScaleSwitch(v, arg)

\* calcgRes / calcaRes / calcmRes on the stored scales
calcRes(x, sc, r) ==
    CASE x = "gyro"  -> [r EXCEPT !.g = calcgRes(sc)]
      [] x = "accel" -> [r EXCEPT !.a = calcaRes(sc)]
      [] x = "mag"   -> [r EXCEPT !.m = calcmRes(sc, r.m)]

\* xgReadByte / mReadByte of the register, then the switch
setScaleRead(x, arg, out) ==
    /\ ~crashed
    /\ caller = "idle"
    /\ LET rd == I2CreadByte(out, chip[ScaleReg(x)])
           sw == scaleSwitch(x, rd.data, arg)
       IN
       /\ handles + rd.left <= MaxHandles
       /\ handles' = handles + rd.left
       /\ IF rd.thrown # NoThrow
          THEN /\ lastSet' = [x |-> x, arg |-> arg, done |-> FALSE,
                              threw |-> TRUE, writeOut |-> "none",
                              before |-> chip[ScaleReg(x)]]
               /\ UNCHANGED << scales, setter, caller >>
          ELSE /\ scales' = [scales EXCEPT ![ScaleField(x)] = sw.scale]
               /\ setter' = [x |-> x, byte |-> sw.byte, arg |-> arg]
               /\ caller' = "set_write"
               /\ lastSet' = [x |-> x, arg |-> arg, done |-> FALSE,
                              threw |-> FALSE, writeOut |-> "none",
                              before |-> chip[ScaleReg(x)]]
    /\ lastEnd' = [lastEnd EXCEPT !.n = 0]
    /\ lastCalc' = NoCalc
    /\ UNCHANGED << device, settings, lsm9ds1Callback, raw, running, thr,
                    gpio, crashed, cyc, lastWait, lastRead, lastBegin,
                    chip, res, lastPoll, lastOffset >>

\* xgWriteByte / mWriteByte of the new register value
setScaleWrite(out) ==
    /\ ~crashed
    /\ caller = "set_write"
    /\ IF I2CwriteByte(out).thrown # NoThrow
       THEN /\ caller' = "idle"
            /\ setter' = NoSetter
            /\ lastSet' = [lastSet EXCEPT !.threw = TRUE, !.writeOut = out]
            /\ chip' = chip
       ELSE /\ caller' = "set_calc"
            /\ setter' = setter
            /\ lastSet' = [lastSet EXCEPT !.writeOut = out]
            /\ chip' = IF out = "ok"
                       THEN [chip EXCEPT ![ScaleReg(setter.x)] = setter.byte]
                       ELSE chip
    /\ UNCHANGED << device, settings, lsm9ds1Callback, raw, running, thr,
                    gpio, crashed, cyc, lastWait, lastRead, lastBegin,
                    lastEnd, scales, res, lastPoll, handles, lastCalc,
                    lastOffset >>

\* calcgRes() / calcaRes() / calcmRes() at the end of the setter
setScaleCalc ==
    /\ ~crashed
    /\ caller = "set_calc"
    /\ res' = calcRes(setter.x, scales, res)
    /\ caller' = "idle"
    /\ setter' = NoSetter
    /\ lastSet' = [lastSet EXCEPT !.done = TRUE]
    /\ UNCHANGED << device, settings, lsm9ds1Callback, raw, running, thr,
                    gpio, crashed, cyc, lastWait, lastRead, lastBegin,
                    lastEnd, chip, scales, lastPoll, handles, lastCalc,
                    lastOffset >>

(***************************************************************************)
(* magOffset (LSM9DS1.cpp:259-268).                                        *)
(***************************************************************************)
\* lines 264-265: msb = (offset & 0xFF00) >> 8; lsb = offset & 0x00FF;
\* offset is promoted to int (two's complement) before the masks are
\* applied; the masks keep bits of the low 16 only
magOffsetBytes(offset) ==
    LET i == offset % (2 ^ 16) IN
    [msb |-> ToUint8(BitAnd(i, 65280) \div (2 ^ 8)),
     lsb |-> ToUint8(BitAnd(i, 255))]

\* magOffset() that sends the high byte first
magOffsetWrites_HighFirst(axis, offset) ==
    IF axis > 2 THEN <<>>
    ELSE LET b == magOffsetBytes(offset) IN
         << [reg |-> ToUint8(OFFSET_X_REG_H_M + (2 * axis)), data |-> b.msb],
            [reg |-> ToUint8(OFFSET_X_REG_L_M + (2 * axis)), data |-> b.lsb] >>

\* lines 261-267: the byte writes of the call in program order
magOffsetWrites(axis, offset) ==
    IF axis > 2 THEN <<>>
    ELSE LET b == magOffsetBytes(offset) IN
         << [reg |-> ToUint8(OFFSET_X_REG_L_M + (2 * axis)), data |-> b.lsb],
            [reg |-> ToUint8(OFFSET_X_REG_H_M + (2 * axis)), data |-> b.msb] >>

\* the writes issued with transport outcomes outs, up to and including
\* the first that throws
RECURSIVE RunWrites(_, _)
RunWrites(ws, outs) ==
    IF ws = <<>> THEN [log |-> <<>>, threw |-> FALSE]
    ELSE LET e == [reg |-> Head(ws).reg, data |-> Head(ws).data,
                   out |-> Head(outs)]
         IN IF I2CwriteByte(Head(outs)).thrown # NoThrow
            THEN [log |-> <<e>>, threw |-> TRUE]
            ELSE LET rest == RunWrites(Tail(ws), Tail(outs))
                 IN [log |-> <<e>> \o rest.log, threw |-> rest.threw]

magOffset(axis, offset, outs) ==
    /\ ~crashed
    /\ caller = "idle"
    /\ LET w == RunWrites(magOffsetWrites(axis, offset), outs) IN
       lastOffset' = [called |-> TRUE, axis |-> axis, offset |-> offset,
                      writes |-> w.log, threw |-> w.threw]
    /\ lastEnd' = [lastEnd EXCEPT !.n = 0]
    /\ UNCHANGED << device, settings, lsm9ds1Callback, raw, running, thr,
                    gpio, caller, crashed, cyc, lastWait, lastRead,
                    lastBegin, chip, scales, res, setter, lastSet, lastPoll,
                    handles, lastCalc >>

(***************************************************************************)
(* Conversions (LSM9DS1.cpp:444-460): the raw reading times the stored     *)
(* resolution, a float product.  Gyroscope and accelerometer values are    *)
(* counted in 1/32768 of the unit, magnetometer values in 0.00001 gauss,   *)
(* where mRes is the float nearest the table entry.                        *)
(***************************************************************************)
calcGyro(gRes, gyro) == ToFloat(gRes * gyro)

calcAccel(aRes, accel) == ToFloat(aRes * accel)

calcMag(mRes, mag) == mRes * mag

calc(x, v) ==
    /\ ~crashed
    /\ caller = "idle"
    /\ lastCalc' = [x |-> x, raw |-> v,
                    value |-> CASE x = "gyro"  -> calcGyro(res.g, v)
                                [] x = "accel" -> calcAccel(res.a, v)
                                [] x = "mag"   -> calcMag(res.m, v)]
    /\ UNCHANGED << device, settings, lsm9ds1Callback, raw, running, thr,
                    gpio, caller, crashed, cyc, lastWait, lastRead,
                    lastBegin, lastEnd, chip, scales, res, setter, lastSet,
                    lastPoll, handles, lastOffset >>

(***************************************************************************)
(* Polling calls (LSM9DS1.cpp:340-366, 382-390, 402-408, 432-442): an      *)
(* assert on the consumer, then one register read.  With NDEBUG defined    *)
(* assert() expands to nothing.                                            *)
(***************************************************************************)
PollOps == {"accelAvailable", "gyroAvailable", "tempAvailable",
            "magAvailable", "readAccelAxis", "readGyroAxis", "readMagAxis"}

\* assert(nullptr == lsm9ds1Callback): does the call abort the process
assertFails(ndebug, cb) == ~ndebug /\ cb # NULL

\* the register read of a polling call: a byte read of a status register
\* or a block read of the two bytes of one axis
pollRead(op, out) ==
    IF op \in {"readAccelAxis", "readGyroAxis", "readMagAxis"}
    THEN I2CreadBytes(out, << 0, 0 >>, 2)
    ELSE I2CreadByte(out, 0)

\* the assert that opens the call
poll(op) ==
    /\ ~crashed
    /\ caller = "idle"
    /\ IF assertFails(device.NDEBUG, lsm9ds1Callback)
       THEN /\ crashed' = TRUE
            /\ caller' = caller
            /\ lastPoll' = [op |-> op, cb |-> lsm9ds1Callback, tx |-> 0,
                            aborted |-> TRUE, threw |-> FALSE]
       ELSE /\ crashed' = FALSE
            /\ caller' = "poll_tx"
            /\ lastPoll' = [op |-> op, cb |-> lsm9ds1Callback, tx |-> 0,
                            aborted |-> FALSE, threw |-> FALSE]
    /\ lastEnd' = [lastEnd EXCEPT !.n = 0]
    /\ UNCHANGED << device, settings, lsm9ds1Callback, raw, running, thr,
                    gpio, cyc, lastWait, lastRead, lastBegin,
                    chip, scales, res, setter, lastSet, handles, lastCalc,
                    lastOffset >>

\* the register read of the call
pollTx(out) ==
    /\ ~crashed
    /\ caller = "poll_tx"
    /\ LET rd == pollRead(lastPoll.op, out) IN
       /\ handles + rd.left <= MaxHandles
       /\ handles' = handles + rd.left
       /\ lastPoll' = [lastPoll EXCEPT !.tx = 1,
                                       !.threw = (rd.thrown # NoThrow)]
    /\ caller' = "idle"
    /\ UNCHANGED << device, settings, lsm9ds1Callback, raw, running, thr,
                    gpio, crashed, cyc, lastWait, lastRead, lastBegin,
                    lastEnd, chip, scales, res, setter, lastSet, lastCalc,
                    lastOffset >>

(***************************************************************************)
(* Specifications.                                                         *)
(*                                                                         *)
(* Spec: caller and acquisition thread interleaved.  The environment of    *)
(* a begin() call is held to a working chip, a chip with a wrong            *)
(* magnetometer identity, and a bus that cannot be opened.                  *)
(***************************************************************************)
LoopBursts == { <<16, 0, 32, 0, 48, 0>> }

\* gpioInitialise() is called, and can fail, only with initPIGPIO set
PigpioResults == IF device.initPIGPIO THEN BOOLEAN ELSE {TRUE}

LoopBeginInputs ==
    [ magEnabled : BOOLEAN, tempEnabled : BOOLEAN,
      gScale : {245}, aScale : {16}, mScale : {16},
      gRate : {1}, gBw : {0}, aBw : {-1},
      pigpioOK : PigpioResults,
      idM : {WHO_AM_I_M_RSP, 0}, idXG : {WHO_AM_I_AG_RSP},
      failAt : {0, 1}, failKind : {"openfail"} ]

Next ==
    \/ \E cb \in Consumers \cup {NULL} : setCallback(cb)
    \/ \E in \in LoopBeginInputs : begin(in)
    \/ end
    \/ endRequest
    \/ endJoin
    \/ workerStart
    \/ workerTest
    \/ \E r \in {1, 0, -1} : workerWait(r)
    \/ \E level \in {0, 1, PI_TIMEOUT} : gpioISR(level)
    \/ dataReadyCheck
    \/ \E s \in Sensors, out \in TxOutcomes, bytes \in LoopBursts :
          dataReadyRead(s, out, bytes)
    \/ \E stale \in BOOLEAN : dataReadyCall(stale)

Spec == Init /\ [][Next]_vars

(***************************************************************************)
(* SpecBegin: begin() against every identity answer and every failing      *)
(* transaction, on a chip that raises no data-ready edge.                  *)
(***************************************************************************)
AllBeginInputs ==
    [ magEnabled : {TRUE}, tempEnabled : {TRUE},
      gScale : {245}, aScale : {16}, mScale : {16},
      gRate : {1}, gBw : {0}, aBw : {-1},
      pigpioOK : PigpioResults, idM : IdBytes, idXG : IdBytes,
      failAt : {0}, failKind : {"openfail"} ]
    \cup
    { in \in [ magEnabled : {TRUE}, tempEnabled : {TRUE},
               gScale : {245}, aScale : {16}, mScale : {16},
               gRate : {1}, gBw : {0}, aBw : {-1},
               pigpioOK : {TRUE}, idM : {WHO_AM_I_M_RSP},
               idXG : {WHO_AM_I_AG_RSP},
               failAt : 1 .. Len(BeginTx),
               failKind : {"openfail", "iofail"} ] :
        \* an identity read that fails after the open is part of SpecAccess
        in.failKind = "iofail" => BeginTx[in.failAt].op = "write" }

NextBegin ==
    \/ \E in \in AllBeginInputs : begin(in)
    \/ end
    \/ endRequest
    \/ endJoin
    \/ workerStart
    \/ workerTest
    \/ \E r \in {0, -1} : workerWait(r)

SpecBegin == Init /\ [][NextBegin]_vars

(***************************************************************************)
(* SpecRead: polling use, the no-argument reads called from the caller's   *)
(* thread with every outcome of the transport.                             *)
(***************************************************************************)
\* begin() on a working chip, with each choice of enabled sensors
ReadBeginInputs ==
    [ magEnabled : BOOLEAN, tempEnabled : BOOLEAN,
      gScale : {245}, aScale : {16}, mScale : {16},
      gRate : {1}, gBw : {0}, aBw : {-1},
      pigpioOK : {TRUE}, idM : {WHO_AM_I_M_RSP}, idXG : {WHO_AM_I_AG_RSP},
      failAt : {0}, failKind : {"openfail"} ]

NextRead ==
    \/ \E in \in ReadBeginInputs : begin(in)
    \/ \E s \in Sensors, out \in BurstOutcomes, bytes \in Bursts :
          callerRead(s, out, bytes)

SpecRead == Init /\ [][NextRead]_vars

(***************************************************************************)
(* SpecScale: begin() and the scale setters called one after another, on   *)
(* every prior register content, with every outcome of the register write, *)
(* a register read that works or cannot open its handle, and with scale    *)
(* arguments inside and outside the enumerations.  One behaviour calls the *)
(* setter of one sensor only.                                              *)
(***************************************************************************)
GyroScaleArgs == GyroScales \cup {1000}
AccelScaleArgs == AccelScales \cup {3}
MagScaleArgs == MagScales \cup {5}

ScaleArgs(x) ==
    CASE x = "gyro"  -> GyroScaleArgs
      [] x = "accel" -> AccelScaleArgs
      [] x = "mag"   -> MagScaleArgs

ScaleBeginInputs ==
    [ magEnabled : {TRUE}, tempEnabled : {TRUE},
      gScale : {245, 1000}, aScale : {16, 3}, mScale : {16, 5},
      gRate : {6}, gBw : {3}, aBw : {2},
      pigpioOK : PigpioResults, idM : {WHO_AM_I_M_RSP},
      idXG : {WHO_AM_I_AG_RSP}, failAt : {0}, failKind : {"openfail"} ]

InitScale == InitWith(PriorContents, {TRUE})

NextScale ==
    \/ \E in \in ScaleBeginInputs : begin(in)
    \/ \E x \in ScaleSensors, out \in {"ok", "openfail"} :
          /\ lastSet.x \in {"none", x}
          /\ \E arg \in ScaleArgs(x) : setScaleRead(x, arg, out)
    \/ \E out \in TxOutcomes : setScaleWrite(out)
    \/ setScaleCalc

SpecScale == InitScale /\ [][NextScale]_vars

(***************************************************************************)
(* SpecRace: the acquisition loop on a working chip and bus, with a        *)
(* consumer, while the caller's thread calls the scale setter of one       *)
(* sensor with scales of its enumeration.                                  *)
(***************************************************************************)
RaceBeginInputs ==
    [ magEnabled : {TRUE}, tempEnabled : {TRUE},
      gScale : {245}, aScale : {16}, mScale : {16},
      gRate : {1}, gBw : {0}, aBw : {-1},
      pigpioOK : {TRUE}, idM : {WHO_AM_I_M_RSP}, idXG : {WHO_AM_I_AG_RSP},
      failAt : {0}, failKind : {"openfail"} ]

NextRace ==
    \/ \E cb \in Consumers : setCallback(cb)
    \/ \E in \in RaceBeginInputs : begin(in)
    \/ \E x \in ScaleSensors :
          /\ lastSet.x \in {"none", x}
          /\ \E arg \in ScaleDomain(x) : setScaleRead(x, arg, "ok")
    \/ setScaleWrite("ok")
    \/ setScaleCalc
    \/ workerStart
    \/ workerTest
    \/ workerWait(1)
    \/ gpioISR(1)
    \/ dataReadyCheck
    \/ \E s \in Sensors, bytes \in LoopBursts : dataReadyRead(s, "ok", bytes)
    \/ \E stale \in BOOLEAN : dataReadyCall(stale)

SpecRace == Init /\ [][NextRace]_vars

(***************************************************************************)
(* SpecPoll: the polling calls, with and without a consumer registered,    *)
(* in a library built with and without NDEBUG.                             *)
(***************************************************************************)
InitPoll == InitWith({0}, BOOLEAN)

NextPoll ==
    \/ \E cb \in Consumers \cup {NULL} : setCallback(cb)
    \/ \E in \in ReadBeginInputs : begin(in)
    \/ \E op \in PollOps : poll(op)
    \/ \E out \in TxOutcomes : pollTx(out)

SpecPoll == InitPoll /\ [][NextPoll]_vars

(***************************************************************************)
(* SpecCalc: begin() and the scale setters with every scale of the         *)
(* enumerations on a working chip and bus, and the conversions of raw      *)
(* values that include both ends of int16_t.                               *)
(***************************************************************************)
CalcRaws == {-32768, -1, 16, 32767}

CalcScales == { <<245, 2, 4>>, <<500, 4, 8>>, <<2000, 8, 12>>,
                <<245, 16, 16>> }

CalcBeginInputs ==
    { in \in [ magEnabled : {TRUE}, tempEnabled : {TRUE},
               gScale : GyroScales, aScale : AccelScales,
               mScale : MagScales,
               gRate : {1}, gBw : {0}, aBw : {-1},
               pigpioOK : {TRUE}, idM : {WHO_AM_I_M_RSP},
               idXG : {WHO_AM_I_AG_RSP}, failAt : {0},
               failKind : {"openfail"} ] :
        << in.gScale, in.aScale, in.mScale >> \in CalcScales }

NextCalc ==
    \/ \E in \in CalcBeginInputs : begin(in)
    \/ \E x \in ScaleSensors :
          /\ lastSet.x \in {"none", x}
          /\ \E arg \in ScaleDomain(x) : setScaleRead(x, arg, "ok")
    \/ setScaleWrite("ok")
    \/ setScaleCalc
    \/ \E x \in ScaleSensors, v \in CalcRaws : calc(x, v)

SpecCalc == Init /\ [][NextCalc]_vars

(***************************************************************************)
(* SpecOffset: magOffset() with axes inside and outside 0..2, offsets of   *)
(* both signs and both ends of int16_t, and every outcome of its writes.   *)
(***************************************************************************)
OffsetAxes == {0, 1, 2, 3, 255}

Offsets == {0, 1, 255, 256, 4660, 32767, -1, -256, -32768}

NextOffset ==
    \/ \E in \in ReadBeginInputs : begin(in)
    \/ \E axis \in OffsetAxes, offset \in Offsets,
          o1 \in TxOutcomes, o2 \in TxOutcomes :
          magOffset(axis, offset, << o1, o2 >>)

SpecOffset == Init /\ [][NextOffset]_vars

(***************************************************************************)
(* SpecAccess: the register accesses of begin() and of the polling calls,  *)
(* byte writes, byte reads and block reads, with every outcome of the      *)
(* transport.                                                              *)
(***************************************************************************)
AccessBeginInputs ==
    [ magEnabled : {TRUE}, tempEnabled : {TRUE},
      gScale : {245}, aScale : {16}, mScale : {16},
      gRate : {1}, gBw : {0}, aBw : {-1},
      pigpioOK : {TRUE}, idM : {WHO_AM_I_M_RSP}, idXG : {WHO_AM_I_AG_RSP},
      failAt : 0 .. 3, failKind : {"openfail", "iofail"} ]

NextAccess ==
    \/ \E in \in AccessBeginInputs : begin(in)
    \/ \E op \in PollOps : poll(op)
    \/ \E out \in TxOutcomes : pollTx(out)

SpecAccess == Init /\ [][NextAccess]_vars

(***************************************************************************)
(* SpecRegs: begin() on a working chip with gyroscope sample rates and     *)
(* bandwidths inside and outside their fields and scales inside and        *)
(* outside the enumeration.                                                *)
(***************************************************************************)
GyroRates == (0 .. 9) \cup {255}

GyroBandwidths == (0 .. 5) \cup {255}

RegBeginInputs ==
    [ magEnabled : {TRUE}, tempEnabled : {TRUE},
      gScale : GyroScaleArgs, aScale : {16}, mScale : {16},
      gRate : GyroRates, gBw : GyroBandwidths, aBw : {-1},
      pigpioOK : PigpioResults, idM : {WHO_AM_I_M_RSP},
      idXG : {WHO_AM_I_AG_RSP}, failAt : {0}, failKind : {"openfail"} ]

NextRegs == \E in \in RegBeginInputs : begin(in)

SpecRegs == InitScale /\ [][NextRegs]_vars

(***************************************************************************)
(* SpecLive: start and stop of the worker thread, with and without a       *)
(* consumer, on a working bus and a data-ready line that can raise an      *)
(* edge, stay silent for the wait period, or fail.  The scheduler runs a   *)
(* thread that can take a step, and the wait returns after its timeout at  *)
(* the latest, so every step of the worker and the join of end() are       *)
(* weakly fair; the calls of the caller are not.                           *)
(***************************************************************************)
NextLive ==
    \/ \E cb \in Consumers : setCallback(cb)
    \/ \E in \in RaceBeginInputs : begin(in)
    \/ endRequest
    \/ endJoin
    \/ workerStart
    \/ workerTest
    \/ \E r \in {1, 0, -1} : workerWait(r)
    \/ dataReadyCheck
    \/ \E s \in Sensors, bytes \in LoopBursts : dataReadyRead(s, "ok", bytes)
    \/ \E stale \in BOOLEAN : dataReadyCall(stale)

FairLive ==
    /\ WF_vars(workerStart)
    /\ WF_vars(workerTest)
    /\ WF_vars(\E r \in {1, 0, -1} : workerWait(r))
    /\ WF_vars(dataReadyCheck)
    /\ WF_vars(\E s \in Sensors, bytes \in LoopBursts :
                  dataReadyRead(s, "ok", bytes))
    /\ WF_vars(\E stale \in BOOLEAN : dataReadyCall(stale))
    /\ WF_vars(endJoin)

SpecLive == Init /\ [][NextLive]_vars /\ FairLive

(***************************************************************************)
(* SpecPollRace: the polling calls and setCallback on the caller's thread  *)
(* while the acquisition loop runs on a working chip and bus, in a library *)
(* built without NDEBUG, so that every polling call that goes on has       *)
(* passed its assertion with no consumer registered.                       *)
(***************************************************************************)
InitPollRace == InitWith({0}, {FALSE})

NextPollRace ==
    \/ \E cb \in Consumers \cup {NULL} : setCallback(cb)
    \/ \E in \in RaceBeginInputs : begin(in)
    \/ \E op \in PollOps : poll(op)
    \/ pollTx("ok")
    \/ workerStart
    \/ workerTest
    \/ workerWait(1)
    \/ gpioISR(1)
    \/ dataReadyCheck
    \/ \E s \in Sensors, bytes \in LoopBursts : dataReadyRead(s, "ok", bytes)
    \/ \E stale \in BOOLEAN : dataReadyCall(stale)

SpecPollRace == InitPollRace /\ [][NextPollRace]_vars

(***************************************************************************)
(* Properties.                                                             *)
(***************************************************************************)
DrReadStates == {"dr_gyro", "dr_accel", "dr_mag", "dr_temp", "dr_call"}

FullCycle == << "gyro", "accel", "mag", "temp", "cb" >>

IsPrefix(a, b) == Len(a) <= Len(b) /\ a = SubSeq(b, 1, Len(a))

\* C1: once end() has returned, the acquisition thread issues no further
\* transport call and invokes no consumer, wherever the thread was when
\* end() was called.
C1_NoLoopActivityAfterEnd ==
    [][ lastEnd.returned =>
          /\ cyc'.tx <= cyc.tx
          /\ Len(cyc'.log) <= Len(cyc.log)
          /\ (thr' # thr => thr' \in {"none", "w_start", "p_wait"}) ]_vars

\* end() has returned after being called in the middle of a cycle
C1_Witness ==
    /\ lastEnd.returned
    /\ lastEnd.calledAt \in DrReadStates
    /\ thr = "none"

\* C2 (as claimed): a cycle that found a consumer, and whose consumer is
\* still registered, calls gyro, accel, mag, temp reads in this order and
\* then the consumer, once; it never ends with less.
C2_CycleReadsThenConsumerOnce ==
    (cyc.chk \in Consumers /\ lsm9ds1Callback \in Consumers) =>
        /\ IsPrefix(cyc.log, FullCycle)
        /\ (thr \notin DrReadStates => cyc.log = FullCycle)

\* C3: a cycle whose consumer check finds no consumer makes no transport
\* call, calls no read and assigns no raw field.
C3_NoConsumerNoTransport ==
    cyc.chk = NULL =>
        /\ cyc.tx = 0
        /\ cyc.log = << >>
        /\ ~cyc.wrote
        /\ thr \notin DrReadStates

\* an edge arrived with no consumer registered and the cycle is over
C3_Witness ==
    /\ cyc.chk = NULL
    /\ lastWait = "event"
    /\ thr \in {"w_test", "p_wait"}

StopRequested == caller = "end_join" \/ lastEnd.returned

\* C4 (as claimed): after a wait that timed out, and with no stop
\* requested, the loop is still Running and the timeout caused no read and
\* no consumer invocation.
C4_TimeoutKeepsRunningNoRead ==
    (lastWait = "timeout" /\ ~StopRequested /\ ~crashed) =>
        /\ cyc.tx = 0
        /\ cyc.log = << >>
        /\ (device.build = "gpiod" => running /\ thr # "exited")

\* C5: after a wait that returned an error the loop is Stopped: the
\* running flag is down, the worker is leaving or has left, and no read
\* and no consumer invocation follows, until begin() starts it again.
C5_WaitErrorStops ==
    lastWait = "error" =>
        /\ ~running
        /\ thr \in {"w_test", "exited", "none"}
        /\ cyc.tx = 0
        /\ cyc.log = << >>

\* the worker has exited after a wait error, a consumer being registered
C5_Witness ==
    /\ lastWait = "error"
    /\ thr = "exited"
    /\ lsm9ds1Callback \in Consumers

\* C9 (as claimed): after a no-argument burst read that met a transport
\* failure, every raw field of that sensor holds a sentinel and nothing
\* was thrown out of the read.
SensorFields(s) ==
    CASE s = "gyro"  -> {raw.gx, raw.gy, raw.gz}
      [] s = "accel" -> {raw.ax, raw.ay, raw.az}
      [] s = "mag"   -> {raw.mx, raw.my, raw.mz}
      [] s = "temp"  -> {raw.temperature}
      [] OTHER       -> {}

C9_FailedReadLeavesSentinel ==
    lastRead.failed =>
        /\ ~lastRead.thrown
        /\ \/ SensorFields(lastRead.sensor) = {GyroSentinel}
           \/ SensorFields(lastRead.sensor) = {AccelSentinel}

\* C10 (as claimed): a cycle that met a transport failure leaves the loop
\* running and still ends with one consumer invocation.
C10_FaultyCycleStillDelivers ==
    (cyc.fault /\ lsm9ds1Callback \in Consumers) =>
        /\ ~crashed
        /\ thr # "dead"
        /\ (thr \notin DrReadStates => cyc.log = FullCycle)

\* both identity reads of the last begin() returned a byte
IdentityRead ==
    /\ Len(lastBegin.log) >= NumIdentityReads
    /\ \A i \in 1 .. NumIdentityReads :
          lastBegin.log[i].op = "read" /\ lastBegin.log[i].out = "ok"

ControlWrites(log) == { i \in 1 .. Len(log) : log[i].op = "write" }

\* C6: begin() tests (accel/gyro identity << 8) | magnetometer identity
\* against the expected constant; a begin() that failed on the identity
\* has issued the two identity reads and nothing else, no control register
\* write, and has not started the acquisition loop.
C6_IdentityMismatchFailsBeforeWrites ==
    /\ (IdentityRead /\ lastBegin.idXG * 256 + lastBegin.idM
                          # WHO_AM_I_AG_RSP * 256 + WHO_AM_I_M_RSP)
          => lastBegin.result = "whoami"
    /\ lastBegin.result = "whoami" =>
          /\ IdentityRead
          /\ Len(lastBegin.log) = NumIdentityReads
          /\ ControlWrites(lastBegin.log) = {}
          /\ ~lastBegin.started
          /\ LoopIdle

\* begin() failed on a wrong magnetometer identity, the accel/gyro one
\* being right
C6_Witness ==
    /\ lastBegin.result = "whoami"
    /\ lastBegin.idXG = WHO_AM_I_AG_RSP
    /\ lastBegin.idM # WHO_AM_I_M_RSP

\* C7 (amended): a begin() that read both identity bytes and met no
\* transport failure succeeds exactly when the accel/gyro byte is 0x68 and
\* the magnetometer byte is 0x3D, and fails for every other pair.
C7_SucceedsIffBothBytesMatch ==
    lastBegin.result \in {"ok", "whoami"} =>
        (lastBegin.result = "ok" <=>
            (lastBegin.idXG = WHO_AM_I_AG_RSP /\ lastBegin.idM = WHO_AM_I_M_RSP))

\* C7 (as claimed): such a begin() succeeds exactly when the two identity
\* bytes XOR to the XOR of the expected bytes.
C7_SucceedsIffXorMatches ==
    lastBegin.result \in {"ok", "whoami"} =>
        (lastBegin.result = "ok" <=>
            BitXor(lastBegin.idXG, lastBegin.idM)
                = BitXor(WHO_AM_I_AG_RSP, WHO_AM_I_M_RSP))

\* begin() failed on two identity bytes whose XOR is the expected one
C7_Witness ==
    /\ lastBegin.result = "whoami"
    /\ BitXor(lastBegin.idXG, lastBegin.idM)
           = BitXor(WHO_AM_I_AG_RSP, WHO_AM_I_M_RSP)

\* C8: an end() that follows an end() changes nothing of the driver,
\* issues no register transaction, releases nothing and does not fail.
C8_SecondEndChangesNothing ==
    [][ (lastEnd.n >= 1 /\ lastEnd'.n = lastEnd.n + 1) =>
          /\ UNCHANGED << gpio, thr, running, raw, settings,
                          lsm9ds1Callback, crashed >>
          /\ lastEnd'.tx = 0
          /\ lastEnd'.released = {}
          /\ ~lastEnd'.threw
          /\ lastEnd'.returned ]_vars

\* end() was called twice after a begin() that started the loop
C8_Witness ==
    /\ lastEnd.n = 2
    /\ lastBegin.result = "ok"
    /\ lastEnd.returned

\* the no-argument read of sensor s reaches the transport
ReadIssued(s) ==
    /\ s = "mag" => settings.magEnabled
    /\ s = "temp" => settings.tempEnabled

\* C11: a burst read for which fewer bytes than asked for arrive fails, the
\* failure leaves the read as an exception, and no raw field is assigned.
C11_ShortReadFailsAssignsNothing ==
    [][ \A s \in Sensors, bytes \in Bursts :
          callerRead(s, "short", bytes) =>
              /\ raw' = raw
              /\ (ReadIssued(s) => lastRead'.failed /\ lastRead'.thrown) ]_vars

\* a gyroscope read came back short after an earlier read had stored
\* real values
C11_Witness ==
    /\ lastRead.out = "short"
    /\ lastRead.sensor = "gyro"
    /\ lastRead.thrown
    /\ raw.gx # 0

\* some transport operation of the last begin() failed
BeginTransportFailed ==
    \E i \in 1 .. Len(lastBegin.log) : lastBegin.log[i].out # "ok"

\* C12 (as claimed): a begin() one of whose transport operations failed,
\* an open, an identity read or a control-register write, has failed and
\* has not started the acquisition loop.
C12_TransportFailureFailsBegin ==
    BeginTransportFailed =>
        /\ lastBegin.result = "transport"
        /\ ~lastBegin.started

\* C13 (as claimed): after a begin() that failed, and before any end(),
\* the loop is stopped and nothing begin() acquired is still held: no ISR,
\* no event line, and no pigpio library that begin() initialised.
C13_FailedBeginHoldsNothing ==
    (lastBegin.result \in {"pigpio", "transport", "whoami"}
        /\ lastEnd.n = 0 /\ caller = "idle") =>
        /\ LoopIdle
        /\ ~gpio.isr
        /\ ~gpio.line
        /\ (device.initPIGPIO => ~gpio.pigpioInit)

\* C14: with the magnetometer disabled no step changes mx, my, mz and the
\* readMag() of a cycle makes no transport call; the same for the
\* temperature word and readTemp() with the temperature sensor disabled.
C14_DisabledSensorsUntouched ==
    [][ /\ ~settings.magEnabled =>
            /\ raw'.mx = raw.mx /\ raw'.my = raw.my /\ raw'.mz = raw.mz
            /\ (thr = "dr_mag" => thr' # "dead")
            /\ (thr = "dr_mag" /\ thr' = "dr_temp" => cyc'.tx = cyc.tx)
        /\ ~settings.tempEnabled =>
            /\ raw'.temperature = raw.temperature
            /\ (thr = "dr_temp" => thr' # "dead")
            /\ (thr = "dr_temp" /\ thr' = "dr_call" => cyc'.tx = cyc.tx) ]_vars

\* a cycle has passed all four reads with both sensors disabled: the two
\* transport calls are those of the gyroscope and the accelerometer
C14_Witness ==
    /\ thr = "dr_call"
    /\ ~settings.magEnabled
    /\ ~settings.tempEnabled
    /\ cyc.log = << "gyro", "accel", "mag", "temp" >>
    /\ cyc.tx = 2

\* weight of the lower scale bit of a scale register: bit 3 of CTRL_REG1_G
\* and CTRL_REG6_XL, bit 5 of CTRL_REG2_M
ScaleBitWeight(r) == IF r = "CTRL_REG2_M" THEN 32 ELSE 8

\* the two scale bits of a register value, and the value without them
ScaleBitsOf(r, v) == (v \div ScaleBitWeight(r)) % 4

OtherBitsOf(r, v) == v - ScaleBitsOf(r, v) * ScaleBitWeight(r)

\* C15: the register write of a scale setter changes nothing but the two
\* scale bits of the setter's own register, whatever the register held,
\* and the other steps of a setter change no register.
C15_SetterChangesOnlyScaleBits ==
    [][ /\ caller = "set_write" =>
            \A r \in ScaleRegs :
                IF r = ScaleReg(setter.x)
                THEN OtherBitsOf(r, chip'[r]) = OtherBitsOf(r, chip[r])
                ELSE chip'[r] = chip[r]
        /\ caller = "set_calc" => chip' = chip
        /\ (caller = "idle" /\ (caller' = "set_write" \/ lastSet'.threw))
              => chip' = chip ]_vars

\* setGyroScale(245) has run to its end on a register that held 0xFF: the
\* register now holds 0xE7
C15_Witness ==
    /\ lastSet.done
    /\ lastSet.x = "gyro"
    /\ lastSet.arg = 245
    /\ lastSet.writeOut = "ok"
    /\ lastSet.before = 255
    /\ chip["CTRL_REG1_G"] = 231

\* the scale-bit code the register map gives each scale, and the
\* resolution of a scale
ScaleCode(x, sc) ==
    CASE x = "gyro"  -> (CASE sc = 245 -> 0 [] sc = 500 -> 1 [] sc = 2000 -> 3)
      [] x = "accel" -> (CASE sc = 2 -> 0 [] sc = 16 -> 1 [] sc = 4 -> 2
                           [] sc = 8 -> 3)
      [] x = "mag"   -> (CASE sc = 4 -> 0 [] sc = 8 -> 1 [] sc = 12 -> 2
                           [] sc = 16 -> 3)

Resolution(x, sc) ==
    CASE x = "gyro"  -> sc
      [] x = "accel" -> sc
      [] x = "mag"   -> magSensitivity[sc \div 4]

\* register bits, stored scale and stored resolution of sensor x all stand
\* for scale sc
AllAgreeOn(x, sc) ==
    /\ ScaleBitsOf(ScaleReg(x), chip[ScaleReg(x)]) = ScaleCode(x, sc)
    /\ scales[ScaleField(x)] = sc
    /\ res[ScaleField(x)] = Resolution(x, sc)

\* C16 (as claimed): after a setter called with a scale of the enumeration
\* has returned, register bits, stored scale and resolution stand for that
\* scale.
C16_SetterRoundTrip ==
    (lastSet.done /\ caller = "idle"
        /\ lastSet.arg \in ScaleDomain(lastSet.x)) =>
        AllAgreeOn(lastSet.x, lastSet.arg)

\* the stored resolution of sensor x is the resolution of its stored scale
ResolutionCurrent(x) ==
    /\ x = "mag" => scales.m \in MagScales
    /\ res[ScaleField(x)] = Resolution(x, scales[ScaleField(x)])

\* C17 (as claimed): once begin() has succeeded, between any two calls of
\* the setters, whether they returned or threw, and with every stored
\* scale a scale of the enumeration, the stored resolution of every sensor
\* is that of its stored scale.
C17_ResolutionAlwaysCurrent ==
    (lastBegin.result = "ok" /\ caller = "idle"
        /\ \A x \in ScaleSensors : scales[ScaleField(x)] \in ScaleDomain(x)) =>
        \A x \in ScaleSensors : ResolutionCurrent(x)

\* no setter has been called since the last begin()
NoSetterCall == lastSet.arg = 0

\* documented default scales
DefaultScaleOf(x) ==
    CASE x = "gyro" -> 245 [] x = "accel" -> 2 [] x = "mag" -> 4

\* C19 (as claimed): an out-of-domain scale never fails and acts as the
\* default scale.  After a begin() that succeeded every stored scale is of
\* the enumeration and agrees with register bits and resolution; after a
\* setter called with an out-of-domain scale the three stand for the
\* default.
C19_OutOfDomainActsAsDefault ==
    /\ (lastBegin.result = "ok" /\ NoSetterCall /\ caller = "idle") =>
          \A x \in ScaleSensors :
              /\ scales[ScaleField(x)] \in ScaleDomain(x)
              /\ AllAgreeOn(x, scales[ScaleField(x)])
    /\ (lastSet.done /\ caller = "idle" /\ lastSet.writeOut = "ok"
           /\ lastSet.arg \notin ScaleDomain(lastSet.x)) =>
          AllAgreeOn(lastSet.x, DefaultScaleOf(lastSet.x))

\* C18 (as claimed): whenever the acquisition thread is at the conversions
\* of a cycle, the stored resolution of every sensor is that of its stored
\* scale, also while a setter runs on the caller's thread.
C18_ConversionNeverSeesStaleResolution ==
    thr = "dr_call" => \A x \in ScaleSensors : ResolutionCurrent(x)

\* C20 (as claimed): a polling call made while a consumer is registered
\* is stopped by its assertion and issues no transport call.
C20_PollingWithConsumerRejected ==
    lastPoll.cb # NULL => (lastPoll.aborted /\ lastPoll.tx = 0)

\* begin() has succeeded, or a setter of sensor x has run to its end, and
\* no call is in progress
ScaleSettled(x) ==
    /\ caller = "idle"
    /\ lastBegin.result = "ok" \/ (lastSet.done /\ lastSet.x = x)

Sent(writes) ==
    [i \in 1 .. Len(writes) |-> [reg |-> writes[i].reg,
                                 data |-> writes[i].data]]

\* the low byte to the low offset register of the axis, then the high
\* byte to its high offset register
OffsetPair(axis, offset) ==
    << [reg |-> OFFSET_X_REG_L_M + 2 * axis, data |-> offset % 256],
       [reg |-> OFFSET_X_REG_H_M + 2 * axis,
        data |-> (offset \div 256) % 256] >>

\* C22: a magOffset(axis, offset) call with axis in 0..2 that returned
\* has issued exactly two byte writes, the low byte offset mod 256 to the
\* low offset register of the axis and then the high byte
\* (offset >> 8) mod 256 to its high offset register; a call that a
\* write has ended with an exception has issued these writes up to the
\* one that threw; a call with axis > 2 has issued no write.
C22_MagOffsetLowThenHigh ==
    lastOffset.called =>
        IF lastOffset.axis > 2
        THEN lastOffset.writes = <<>> /\ ~lastOffset.threw
        ELSE LET pair == OffsetPair(lastOffset.axis, lastOffset.offset)
                 sent == Sent(lastOffset.writes)
             IN IF lastOffset.threw
                THEN Len(sent) \in {1, 2} /\ IsPrefix(sent, pair)
                ELSE sent = pair

\* magOffset(2, -256) on a working bus: 0x00 to register 0x09, then 0xFF
\* to register 0x0A
C22_Witness ==
    /\ lastOffset.called
    /\ lastOffset.axis = 2
    /\ lastOffset.offset = -256
    /\ lastOffset.writes = << [reg |-> 9, data |-> 0, out |-> "ok"],
                              [reg |-> 10, data |-> 255, out |-> "ok"] >>

\* C25 (as claimed): whenever no register access is in progress, every
\* transport handle that an access has opened is closed.
C25_NoHandleLeftOpen == handles = 0

\* the signed 16-bit value of a low and a high byte
Signed16(lo, hi) ==
    IF hi >= 128 THEN hi * 256 + lo - 65536 ELSE hi * 256 + lo

\* the x, y, z raw fields of a three-axis sensor
AxisFields(s) ==
    CASE s = "gyro"  -> << raw.gx, raw.gy, raw.gz >>
      [] s = "accel" -> << raw.ax, raw.ay, raw.az >>
      [] s = "mag"   -> << raw.mx, raw.my, raw.mz >>

\* C23: after a 6-byte burst read that worked, the x, y, z raw fields of
\* the sensor hold the signed 16-bit values of the byte pairs (0,1),
\* (2,3), (4,5), low byte first; a pair with high byte >= 0x80 gives the
\* negative value of the wrap modulo 2^16.
C23_BurstPacksLittleEndianSigned ==
    (lastRead.sensor \in {"gyro", "accel", "mag"} /\ lastRead.got # <<>>) =>
        AxisFields(lastRead.sensor) =
            << Signed16(lastRead.got[1], lastRead.got[2]),
               Signed16(lastRead.got[3], lastRead.got[4]),
               Signed16(lastRead.got[5], lastRead.got[6]) >>

\* the gyroscope burst 0x10,0x00,0x20,0x00,0x30,0x00 has been read: raw
\* values 16, 32, 48
C23_Witness ==
    /\ lastRead.sensor = "gyro"
    /\ lastRead.got = << 16, 0, 32, 0, 48, 0 >>
    /\ raw.gx = 16 /\ raw.gy = 32 /\ raw.gz = 48

\* the control registers of the gyroscope, the accelerometer and the
\* magnetometer, in this order
ControlOrder ==
    << "CTRL_REG1_G", "CTRL_REG2_G", "CTRL_REG3_G", "CTRL_REG4",
       "ORIENT_CFG_G", "INT2_CTRL",
       "CTRL_REG5_XL", "CTRL_REG6_XL", "CTRL_REG7_XL",
       "CTRL_REG1_M", "CTRL_REG2_M", "CTRL_REG3_M", "CTRL_REG4_M",
       "CTRL_REG5_M" >>

\* the registers the last begin() has written, in the order of the writes
WrittenRegs ==
    LET w == SelectSeq(lastBegin.log, LAMBDA e : e.op = "write")
    IN [i \in 1 .. Len(w) |-> w[i].reg]

LoopActive == thr \notin {"none", "exited", "dead"}

\* C24: a begin() that has started the acquisition loop has before that
\* issued the write of every control register, gyroscope first, then
\* accelerometer, then magnetometer, none of which threw; the acquisition
\* thread exists, and can run a cycle or invoke the consumer, only after
\* such a begin().
C24_LoopStartsAfterControlWrites ==
    /\ lastBegin.started =>
          (WrittenRegs = ControlOrder /\ lastBegin.result = "ok")
    /\ LoopActive => lastBegin.started

\* begin() has written the fourteen control registers and the worker it
\* started has come to its wait
C24_Witness ==
    /\ lastBegin.started
    /\ Len(WrittenRegs) = 14
    /\ thr = "w_wait"

\* the scale code of CTRL_REG1_G for a stored gyroscope scale
GyroCode(scale) ==
    CASE scale = 245 -> 0 [] scale = 500 -> 1 [] scale = 2000 -> 3
      [] OTHER -> 0

C27_StopRequestNeverLost ==
    (caller = "end_join") ~> (caller = "idle" /\ thr = "none")

\* C28 (as claimed): when the acquisition thread makes the consumer call
\* that ends a cycle, a consumer is registered, whatever setCallback calls
\* the caller's thread has made during the cycle.
C28_LoopNeverInvokesNullConsumer ==
    [][(thr = "dr_call" /\ thr' \in {"w_test", "p_wait", "dead"}) =>
          lsm9ds1Callback # NULL]_vars

\* C29 (as claimed): while a polling call stands between its assertion,
\* which it has passed, and the end of its register read, the acquisition
\* loop issues no transport call.
C29_PollingNeverInterleavesWithLoop ==
    [][caller = "poll_tx" => cyc'.tx <= cyc.tx]_vars

\* the scale the register map assigns to the two scale bits of a sensor's
\* control register; 0 for a code the map does not define
DecodeScale(x, code) ==
    CASE x = "gyro"  -> << 245, 500, 0, 2000 >>[code + 1]
      [] x = "accel" -> << 2, 16, 4, 8 >>[code + 1]
      [] x = "mag"   -> << 4, 8, 12, 16 >>[code + 1]

\* every register write of the calls made so far that count has reached
\* the chip, and no call is in progress or has ended with an exception
CallsSucceeded ==
    /\ lastBegin.result = "ok"
    /\ caller = "idle"
    /\ ~lastSet.threw
    /\ lastSet.writeOut \in {"none", "ok"}

\* C30 (as claimed): after begin() and scale setters that succeeded, with
\* scales inside or outside the enumerations, the scale that the scale
\* bits in the chip's control register stand for is the scale the driver
\* has stored for the sensor.
C30_ChipAndDriverAgreeOnScale ==
    CallsSucceeded =>
        \A x \in ScaleSensors :
            DecodeScale(x, ScaleBitsOf(ScaleReg(x), chip[ScaleReg(x)])) =
                scales[ScaleField(x)]

====
